---- MODULE Spec2Model ----
(***************************************************************************)
(* Model of the dual-engine text-to-speech system: the coordinator        *)
(* DualTTSSystem (src/solution.py), the command line entry point main     *)
(* (src/solution.py) and the HTTP request handlers with their in-memory   *)
(* task store (src/application/app.py).                                   *)
(*                                                                         *)
(* Time is counted in hours.  A text is the pair <<w, c>>: w whitespace   *)
(* characters around c other characters.  The external synthesis          *)
(* libraries are an input of every request: each engine call either       *)
(* writes the artifact and returns ("ok"), returns without an artifact    *)
(* ("okNoFile") or raises ("fail").  The request handlers see an engine   *)
(* call only through that outcome; the adapter actions CoquiSynthesize    *)
(* and PyttsxSynthesize model what a call does inside an adapter.         *)
(* Multipliers are exact fractions <<numerator, denominator>>.            *)
(***************************************************************************)
EXTENDS Integers, Sequences, FiniteSets, TLC

\* ---------------------------------------------------------------- bounds
MaxTime == 2
MaxSync == 1
MaxTasks == 1
MaxAdapterCalls == 1
MaxRepeatedCalls == 2

\* ------------------------------------------------------- program constants
MaxTextLen == 1000
RetentionHours == 1
MinIntensity == 0
MaxIntensity == 100

\* ------------------------------------------------------------ input sets
Texts == {<<0, 0>>, <<1, 0>>, <<0, 1>>, <<0, 1000>>, <<0, 1001>>}
Intensities == {-1, 0, 100, 101}
HttpEngines == {"auto", "coqui", "pyttsx3", "other"}
CliEngines == {"auto", "coqui", "pyttsx3"}
Outcomes == {"ok", "okNoFile", "fail"}
PlainText == <<0, 1>>
Request(t, e, i) == [text |-> t, engine |-> e, intensity |-> i]
Environment(oc, op, err) == [oc |-> oc, op |-> op, fsError |-> err]

Time == 0..MaxTime
TaskIds == 1..MaxTasks
CliPath == 0
SyncPaths == 1..MaxSync
AsyncPath(id) == MaxSync + id
AudioPaths == 1..(MaxSync + MaxTasks)
Paths == 0..(MaxSync + MaxTasks)

VARIABLES coqui_available, pyttsx_available, primary, fallback, proc, exit_status,
          now, audio_dir, files, nsync,
          task_storage, background, faulted,
          status_log, polled, last,
          pyttsx_default, pyttsx_engine, applied, ncalls

vars == <<coqui_available, pyttsx_available, primary, fallback, proc, exit_status,
          now, audio_dir, files, nsync,
          task_storage, background, faulted,
          status_log, polled, last,
          pyttsx_default, pyttsx_engine, applied, ncalls>>

adapterVars == <<pyttsx_default, pyttsx_engine, applied, ncalls>>

engineVars ==
  <<coqui_available, pyttsx_available, primary, fallback, proc, exit_status, adapterVars>>

\* ------------------------------------------------------------------ text
TextLen(text) == text[1] + text[2]

Strip(text) == <<0, text[2]>>

IsBlankUnstripped(text) == TextLen(text) = 0

IsBlank(text) == TextLen(Strip(text)) = 0

IsEmptyArg(text) == TextLen(text) = 0

TooLong(text) == TextLen(text) > MaxTextLen

IntensityInRange(intensity) == MinIntensity <= intensity /\ intensity <= MaxIntensity

\* ----------------------------------------------------------------- files
NoFile == [mtime |-> -1, kind |-> "none"]

Exists(f) == f.kind # "none"

Touch(f, t) == IF Exists(f) THEN [f EXCEPT !.mtime = t] ELSE [mtime |-> t, kind |-> "empty"]

AudioFile(t) == [mtime |-> t, kind |-> "audio"]

\* ----------------------------------------------------------- coordinator
PrimaryPyttsxFirst(c, p) == IF p THEN "pyttsx3" ELSE IF c THEN "coqui" ELSE "none"

PrimaryOf(c, p) == IF c THEN "coqui" ELSE IF p THEN "pyttsx3" ELSE "none"

FallbackOf(c, p) == IF c THEN "pyttsx3" ELSE "none"

StartupAlwaysRuns(c, p) == "running"

StartupProc(c, p) == IF c \/ p THEN "running" ELSE "exited"

StartupExit(c, p) == IF c \/ p THEN -1 ELSE 1

Available(name) == IF name = "coqui" THEN coqui_available ELSE pyttsx_available

EngineSynthesize(name, outcome) ==
  [engine |-> name,
   ret |-> Available(name) /\ outcome \in {"ok", "okNoFile"},
   wrote |-> Available(name) /\ outcome = "ok"]

SelectEngine(engine) ==
  IF engine = "auto" THEN primary
  ELSE IF engine = "coqui" THEN (IF ~coqui_available THEN "pyttsx3" ELSE "coqui")
  ELSE IF engine = "pyttsx3" THEN "pyttsx3"
  ELSE "none"

ShouldFallbackNever(success, selected) == FALSE

ShouldFallbackAnySelection(success, selected) == ~success /\ fallback # "none"

ShouldFallback(success, selected) ==
  ~success /\ fallback # "none" /\ selected = primary

FallbackResultIgnored(first, second) == first

FallbackResult(first, second) == second

OutcomeOf(name, oc, op) == IF name = "coqui" THEN oc ELSE op

CallOf(r) == [engine |-> r.engine, ret |-> r.ret]

DualSynthesize(engine, oc, op) ==
  LET sel == SelectEngine(engine) IN
  IF sel = "none"
  THEN [ret |-> FALSE, calls |-> <<>>, wrote |-> FALSE]
  ELSE LET first == EngineSynthesize(sel, OutcomeOf(sel, oc, op)) IN
       IF ShouldFallback(first.ret, sel)
       THEN LET second == EngineSynthesize(fallback, OutcomeOf(fallback, oc, op)) IN
            [ret |-> FallbackResult(first.ret, second.ret),
             calls |-> <<CallOf(first), CallOf(second)>>,
             wrote |-> first.wrote \/ second.wrote]
       ELSE [ret |-> first.ret, calls |-> <<CallOf(first)>>, wrote |-> first.wrote]

\* -------------------------------------------------------- engine adapters
StyleKeys == {"neutral", "enthusiastic", "somber", "confident", "authoritative"}

AdvertisedStyles == {"happy", "dramatic"}

AdapterStyles == StyleKeys \cup AdvertisedStyles

AdapterIntensities == {0, 25, 50, 75, 100}

InstalledVoices == {0, 1}

NoVoiceQuery == -1

VoiceQueries == {NoVoiceQuery, 1, 9}

DefaultRates == {150, 200}

DefaultVolumes == {<<1, 1>>, <<1, 2>>}

RECURSIVE GCD(_, _)
GCD(a, b) == IF b = 0 THEN a ELSE GCD(b, a % b)

Fraction(n, d) == <<n \div GCD(n, d), d \div GCD(n, d)>>

FractionLeq(a, b) == a[1] * b[2] <= b[1] * a[2]

IntensityScaleNoOffset(intensity) == Fraction(intensity, 100)

IntensityScale(intensity) == Fraction(50 + intensity, 100)

NoParams == [keys |-> {}, speed |-> <<0, 1>>]

SpeedParam(f) == [keys |-> {"speed"}, speed |-> f]

CoquiGetStyleParams(style, intensity) ==
  LET m == IntensityScale(intensity) IN
  IF style = "enthusiastic" THEN SpeedParam(Fraction(11 * m[1], 10 * m[2]))
  ELSE IF style = "somber" THEN SpeedParam(Fraction(8 * m[2], 10 * m[1]))
  ELSE IF style = "confident" THEN SpeedParam(Fraction(m[1], m[2]))
  ELSE IF style = "authoritative" THEN SpeedParam(Fraction(9 * m[1], 10 * m[2]))
  ELSE NoParams

StyleConfig(r, v) == [rate_mult |-> r, volume_mult |-> v]

PyttsxStyleConfigWrongDefault(style) ==
  IF style = "neutral" THEN StyleConfig(10, 10)
  ELSE IF style = "somber" THEN StyleConfig(7, 8)
  ELSE IF style = "confident" THEN StyleConfig(11, 11)
  ELSE IF style = "authoritative" THEN StyleConfig(9, 10)
  ELSE StyleConfig(13, 12)

PyttsxStyleConfig(style) ==
  IF style = "enthusiastic" THEN StyleConfig(13, 12)
  ELSE IF style = "somber" THEN StyleConfig(7, 8)
  ELSE IF style = "confident" THEN StyleConfig(11, 11)
  ELSE IF style = "authoritative" THEN StyleConfig(9, 10)
  ELSE StyleConfig(10, 10)

EngineProperties(r, v, voice) == [rate |-> r, volume |-> v, voice |-> voice]

CapVolume(f) == IF f[1] > f[2] THEN <<1, 1>> ELSE f

PyttsxApplyStyle(engine, style, intensity) ==
  LET m == IntensityScale(intensity)
      config == PyttsxStyleConfig(style)
  IN [engine EXCEPT
        !.rate = (engine.rate * config.rate_mult * m[1]) \div (10 * m[2]),
        !.volume = CapVolume(Fraction(engine.volume[1] * config.volume_mult * m[1],
                                      engine.volume[2] * 10 * m[2]))]

PyttsxSelectVoice(engine, voice) ==
  IF voice = NoVoiceQuery THEN engine
  ELSE IF voice \in InstalledVoices THEN [engine EXCEPT !.voice = voice]
  ELSE engine

NoApplied ==
  [adapter |-> "none", style |-> "neutral", intensity |-> 50, voice |-> NoVoiceQuery,
   ran |-> FALSE, ret |-> FALSE, base |-> EngineProperties(0, <<0, 1>>, 0), params |-> NoParams]

CoquiSynthesize(Styles, Ints, limit) ==
  /\ proc = "running"
  /\ ncalls < limit
  /\ \E style \in Styles, intensity \in Ints, outcome \in {"ok", "fail"} :
       applied' = [adapter |-> "coqui", style |-> style, intensity |-> intensity,
                   voice |-> NoVoiceQuery, ran |-> coqui_available,
                   ret |-> coqui_available /\ outcome = "ok", base |-> pyttsx_engine,
                   params |-> IF coqui_available
                              THEN CoquiGetStyleParams(style, intensity) ELSE NoParams]
  /\ ncalls' = ncalls + 1
  /\ UNCHANGED <<coqui_available, pyttsx_available, primary, fallback, proc, exit_status,
                 pyttsx_default, pyttsx_engine, now, audio_dir, files, nsync, task_storage,
                 background, faulted, status_log, polled, last>>

PyttsxSynthesize(Styles, Ints, Queries, limit) ==
  /\ proc = "running"
  /\ ncalls < limit
  /\ \E style \in Styles, intensity \in Ints, voice \in Queries, outcome \in {"ok", "fail"} :
       /\ applied' = [adapter |-> "pyttsx3", style |-> style, intensity |-> intensity,
                      voice |-> voice, ran |-> pyttsx_available,
                      ret |-> pyttsx_available /\ outcome = "ok", base |-> pyttsx_engine,
                      params |-> NoParams]
       /\ pyttsx_engine' =
            IF pyttsx_available
            THEN PyttsxApplyStyle(PyttsxSelectVoice(pyttsx_engine, voice), style, intensity)
            ELSE pyttsx_engine
  /\ ncalls' = ncalls + 1
  /\ UNCHANGED <<coqui_available, pyttsx_available, primary, fallback, proc, exit_status,
                 pyttsx_default, now, audio_dir, files, nsync, task_storage,
                 background, faulted, status_log, polled, last>>

\* ----------------------------------------------------------- task records
NoReq == [text |-> <<0, 0>>, engine |-> "auto", intensity |-> 50]

NoTask == [status |-> "none", progress |-> 0, created_at |-> -1, result |-> -1, error |-> "none"]

NewTask(t) == [status |-> "pending", progress |-> 0, created_at |-> t, result |-> -1, error |-> "none"]

IsOldInclusive(stamp, cutoff) == stamp <= cutoff

IsOld(stamp, cutoff) == stamp < cutoff

\* ---------------------------------------------------- last handled request
NoLast ==
  [op |-> "none", req |-> NoReq, invoked |-> FALSE, calls |-> <<>>, ret |-> FALSE,
   code |-> -1, audio |-> -1, path |-> -1, existed |-> FALSE, task |-> -1]

Rejected(o, r, c) == [NoLast EXCEPT !.op = o, !.req = r, !.code = c]

\* ------------------------------------------------------------------ Init
SystemInit ==
  /\ coqui_available \in BOOLEAN
  /\ pyttsx_available \in BOOLEAN
  /\ primary = PrimaryOf(coqui_available, pyttsx_available)
  /\ fallback = FallbackOf(coqui_available, pyttsx_available)
  /\ proc = StartupProc(coqui_available, pyttsx_available)
  /\ exit_status = StartupExit(coqui_available, pyttsx_available)
  /\ now = 0
  /\ audio_dir = FALSE
  /\ files = [p \in Paths |-> NoFile]
  /\ nsync = 0
  /\ task_storage = [id \in TaskIds |-> NoTask]
  /\ background = {}
  /\ faulted = {}
  /\ status_log = [id \in TaskIds |-> <<>>]
  /\ polled = [id \in TaskIds |-> <<>>]
  /\ last = NoLast

AdapterInit(rates, volumes) ==
  /\ pyttsx_default \in {EngineProperties(r, v, 0) : r \in rates, v \in volumes}
  /\ pyttsx_engine = pyttsx_default
  /\ applied = NoApplied
  /\ ncalls = 0

Init == SystemInit /\ AdapterInit({200}, {<<1, 1>>})

AdaptersInit == SystemInit /\ AdapterInit(DefaultRates, DefaultVolumes)

\* ------------------------------------------------------------ the clock
Tick ==
  /\ proc = "running"
  /\ now < MaxTime
  /\ now' = now + 1
  /\ UNCHANGED <<engineVars, audio_dir, files, nsync, task_storage, background,
                 faulted, status_log, polled, last>>

\* ------------------------------------------------- POST /api/synthesize
SynthesizeSpeech(Reqs, Envs) ==
  /\ proc = "running"
  /\ nsync < MaxSync
  /\ \E req \in Reqs, env \in Envs :
       LET path == nsync + 1
           r == DualSynthesize(req.engine, env.oc, env.op)
           written == IF r.wrote THEN [files EXCEPT ![path] = AudioFile(now)] ELSE files
           good == r.ret /\ Exists(written[path])
       IN
       IF IsBlank(req.text) \/ TooLong(req.text)
       THEN /\ last' = Rejected("sync", req, 500)
            /\ UNCHANGED <<audio_dir, files, nsync>>
       ELSE IF env.fsError
       THEN /\ last' = [Rejected("sync", req, 500) EXCEPT !.path = path]
            /\ nsync' = nsync + 1
            /\ UNCHANGED <<audio_dir, files>>
       ELSE /\ nsync' = nsync + 1
            /\ audio_dir' = TRUE
            /\ files' = written
            /\ last' = [op |-> "sync", req |-> req, invoked |-> TRUE, calls |-> r.calls,
                        ret |-> r.ret, code |-> IF good THEN 200 ELSE 500,
                        audio |-> IF good THEN path ELSE -1, path |-> path,
                        existed |-> Exists(files[path]), task |-> -1]
  /\ UNCHANGED <<engineVars, now, task_storage, background, faulted, status_log, polled>>

\* ------------------------------------------- POST /api/synthesize-async
FreeTaskIds == {id \in TaskIds : status_log[id] = <<>>}

SynthesizeSpeechAsync(Reqs) ==
  /\ proc = "running"
  /\ FreeTaskIds # {}
  /\ \E req \in Reqs :
       LET id == CHOOSE i \in FreeTaskIds : \A j \in FreeTaskIds : i <= j IN
       IF IsBlank(req.text)
       THEN /\ last' = Rejected("async", req, 500)
            /\ UNCHANGED <<task_storage, background, status_log>>
       ELSE /\ task_storage' = [task_storage EXCEPT ![id] = NewTask(now)]
            /\ background' = background \cup {[id |-> id, req |-> req]}
            /\ status_log' = [status_log EXCEPT ![id] = <<"pending">>]
            /\ last' = [Rejected("async", req, 200) EXCEPT !.task = id]
  /\ UNCHANGED <<engineVars, now, audio_dir, files, nsync, faulted, polled>>

\* ------------------------------------------------ process_async_synthesis
Present(id) == task_storage[id].status # "none"

WorkerStatusReversed(good) == <<IF good THEN "completed" ELSE "failed", "processing">>

WorkerStatus(good) == <<"processing", IF good THEN "completed" ELSE "failed">>

ProcessAsyncSynthesis(Envs) ==
  /\ proc = "running"
  /\ \E job \in background, env \in Envs :
       LET id == job.id
           req == job.req
           path == AsyncPath(id)
           r == DualSynthesize(req.engine, env.oc, env.op)
           written == IF r.wrote THEN [files EXCEPT ![path] = AudioFile(now)] ELSE files
           good == r.ret /\ Exists(written[path])
           log == WorkerStatus(good /\ ~env.fsError)
       IN
       /\ background' = background \ {job}
       /\ IF ~Present(id)
          THEN /\ faulted' = faulted \cup {id}
               /\ UNCHANGED <<audio_dir, files, task_storage, status_log, last>>
          ELSE IF env.fsError
          THEN /\ task_storage' = [task_storage EXCEPT ![id].status = log[Len(log)],
                                     ![id].progress = 100, ![id].error = "exception"]
               /\ status_log' = [status_log EXCEPT ![id] = @ \o log]
               /\ last' = [Rejected("worker", req, -1) EXCEPT !.path = path, !.task = id]
               /\ UNCHANGED <<audio_dir, files, faulted>>
          ELSE /\ audio_dir' = TRUE
               /\ files' = written
               /\ task_storage' =
                    [task_storage EXCEPT
                       ![id].status = log[Len(log)],
                       ![id].progress = 100,
                       ![id].result = IF good THEN path ELSE -1,
                       ![id].error = IF good THEN "none" ELSE "Speech synthesis failed"]
               /\ status_log' = [status_log EXCEPT ![id] = @ \o log]
               /\ last' = [op |-> "worker", req |-> req, invoked |-> TRUE, calls |-> r.calls,
                           ret |-> r.ret, code |-> -1, audio |-> IF good THEN path ELSE -1,
                           path |-> path, existed |-> Exists(files[path]), task |-> id]
               /\ UNCHANGED faulted
  /\ UNCHANGED <<engineVars, now, nsync, polled>>

\* ------------------------------------------------- GET /api/task/{id}
Observe(seen, status) ==
  IF seen # <<>> /\ seen[Len(seen)] = status THEN seen ELSE Append(seen, status)

GetTaskStatus ==
  /\ proc = "running"
  /\ \E id \in TaskIds :
       /\ Present(id)
       /\ polled' = [polled EXCEPT ![id] = Observe(@, task_storage[id].status)]
  /\ UNCHANGED <<engineVars, now, audio_dir, files, nsync, task_storage, background,
                 faulted, status_log, last>>

\* ------------------------------------------------- DELETE /api/cleanup
CleanupOldFiles ==
  /\ proc = "running"
  /\ LET cutoff_time == now - RetentionHours IN
     IF ~audio_dir
     THEN UNCHANGED <<files, task_storage>>
     ELSE /\ files' = [p \in Paths |->
                         IF p \in AudioPaths /\ Exists(files[p]) /\ IsOld(files[p].mtime, cutoff_time)
                         THEN NoFile ELSE files[p]]
          /\ task_storage' = [id \in TaskIds |->
                         IF Present(id) /\ IsOld(task_storage[id].created_at, cutoff_time)
                         THEN NoTask ELSE task_storage[id]]
  /\ UNCHANGED <<engineVars, now, audio_dir, nsync, background, faulted, status_log,
                 polled, last>>

\* ----------------------------------------------------- main (command line)
Main(Reqs, Envs) ==
  /\ proc = "running"
  /\ \E req \in Reqs, env \in Envs :
       LET touched == [files EXCEPT ![CliPath] = Touch(@, now)]
           r == DualSynthesize(req.engine, env.oc, env.op)
           written == IF r.wrote THEN [touched EXCEPT ![CliPath] = AudioFile(now)] ELSE touched
       IN
       IF req.engine \notin CliEngines \/ IsEmptyArg(req.text)
          \/ ~IntensityInRange(req.intensity)
       THEN /\ last' = Rejected("cli", req, 2)
            /\ UNCHANGED files
       ELSE IF IsBlank(req.text) \/ env.fsError
       THEN /\ last' = [Rejected("cli", req, 1) EXCEPT !.path = CliPath,
                                                      !.existed = Exists(files[CliPath])]
            /\ UNCHANGED files
       ELSE /\ files' = written
            /\ last' = [op |-> "cli", req |-> req, invoked |-> TRUE, calls |-> r.calls,
                        ret |-> r.ret, code |-> IF r.ret THEN 0 ELSE 1,
                        audio |-> -1, path |-> CliPath,
                        existed |-> Exists(files[CliPath]), task |-> -1]
  /\ UNCHANGED <<engineVars, now, audio_dir, nsync, task_storage, background, faulted,
                 status_log, polled>>

\* ------------------------------- GET /api/status and main --status
GetSystemStatus ==
  /\ proc = "running"
  /\ last' = Rejected("status", NoReq, 200)
  /\ UNCHANGED <<engineVars, now, audio_dir, files, nsync, task_storage, background,
                 faulted, status_log, polled>>

\* -------------------------- GET /api/voices and main --list-voices
GetAvailableVoices ==
  /\ proc = "running"
  /\ last' = Rejected("voices", NoReq, 200)
  /\ UNCHANGED <<engineVars, now, audio_dir, files, nsync, task_storage, background,
                 faulted, status_log, polled>>

\* ------------------------------------------------------- specifications
\* Spec: the coordinator under every engine selector and every engine outcome.
CoordRequests == {Request(PlainText, e, 50) : e \in HttpEngines}

CoordEnvs == {Environment(oc, op, FALSE) : oc \in Outcomes, op \in Outcomes}

Next ==
  \/ SynthesizeSpeech(CoordRequests, CoordEnvs)
  \/ SynthesizeSpeechAsync(CoordRequests)
  \/ ProcessAsyncSynthesis(CoordEnvs)
  \/ Main(CoordRequests, CoordEnvs)
  \/ GetSystemStatus
  \/ GetAvailableVoices

Spec == Init /\ [][Next]_vars

\* SpecInput: input validation at every request boundary, under every text and intensity.
InputRequests ==
  {Request(t, "auto", 50) : t \in Texts} \cup {Request(PlainText, "auto", i) : i \in Intensities}

InputEnvs == {Environment("ok", "ok", FALSE), Environment("fail", "fail", FALSE)}

InputCliEnvs == InputEnvs \cup {Environment("ok", "ok", TRUE)}

NextInput ==
  \/ SynthesizeSpeech(InputRequests, InputEnvs)
  \/ SynthesizeSpeechAsync(InputRequests)
  \/ ProcessAsyncSynthesis(InputEnvs)
  \/ Main(InputRequests, InputCliEnvs)

SpecInput == Init /\ [][NextInput]_vars

\* SpecTasks: the task store over time, with polling and cleanup.
TaskRequests == {Request(PlainText, "auto", 50), Request(<<1, 0>>, "auto", 50)}

TaskEnvs == {Environment("ok", "ok", FALSE), Environment("fail", "fail", FALSE),
             Environment("ok", "ok", TRUE)}

TaskSyncRequests == {Request(PlainText, "auto", 50)}

TaskSyncEnvs == {Environment("ok", "ok", FALSE)}

NextTasks ==
  \/ Tick
  \/ SynthesizeSpeech(TaskSyncRequests, TaskSyncEnvs)
  \/ SynthesizeSpeechAsync(TaskRequests)
  \/ ProcessAsyncSynthesis(TaskEnvs)
  \/ GetTaskStatus
  \/ CleanupOldFiles

SpecTasks == Init /\ [][NextTasks]_vars

\* SpecAdapters: one call of an adapter, under every style and the sampled intensities.
NextAdapters ==
  \/ CoquiSynthesize(AdapterStyles, AdapterIntensities, MaxAdapterCalls)
  \/ PyttsxSynthesize(AdapterStyles, AdapterIntensities, VoiceQueries, MaxAdapterCalls)

SpecAdapters == AdaptersInit /\ [][NextAdapters]_vars

\* SpecEngineState: successive calls of the pyttsx3 adapter on the same engine.
RepeatedStyles == {"neutral", "enthusiastic", "somber"}

RepeatedIntensities == {0, 50, 100}

RepeatedQueries == {NoVoiceQuery, 1}

NextEngineState ==
  PyttsxSynthesize(RepeatedStyles, RepeatedIntensities, RepeatedQueries, MaxRepeatedCalls)

SpecEngineState == AdaptersInit /\ [][NextEngineState]_vars

\* ------------------------------------------------------------ properties
Failed(call) == ~call.ret

OtherEngine(name) == IF name = "coqui" THEN "pyttsx3" ELSE "coqui"

FirstAvailable == IF coqui_available THEN "coqui" ELSE "pyttsx3"

PrimaryFailedFirst ==
  /\ last.invoked
  /\ last.calls # <<>>
  /\ last.calls[1].engine = primary
  /\ Failed(last.calls[1])

\* C1: when the selected engine is the primary and its call fails, a fallback that
\* exists receives exactly one further call, whose result is returned; without a
\* fallback the request fails after exactly one call; no request makes more than
\* two engine calls.
FallbackOnce ==
  /\ Len(last.calls) <= 2
  /\ PrimaryFailedFirst =>
       IF fallback # "none"
       THEN /\ Len(last.calls) = 2
            /\ last.calls[2].engine = fallback
            /\ last.ret = last.calls[2].ret
       ELSE /\ Len(last.calls) = 1
            /\ ~last.ret

FallbackOnceWitness ==
  /\ PrimaryFailedFirst
  /\ fallback # "none"
  /\ Len(last.calls) = 2
  /\ last.op = "sync"

NamesNonPrimary ==
  /\ last.invoked
  /\ last.req.engine \in {"coqui", "pyttsx3"}
  /\ last.req.engine # primary

\* C2: a request that names the non-primary engine makes at most one engine call,
\* in every availability configuration, also when that call fails.
NonPrimaryNoFallback ==
  NamesNonPrimary =>
    /\ Len(last.calls) <= 1
    /\ \A i, j \in 1..Len(last.calls) : last.calls[i].engine = last.calls[j].engine

NonPrimaryNoFallbackWitness ==
  /\ NamesNonPrimary
  /\ coqui_available /\ pyttsx_available
  /\ last.req.engine = "pyttsx3"
  /\ Len(last.calls) = 1
  /\ Failed(last.calls[1])

\* C3: for the selectors coqui and pyttsx3, a requested engine that is unavailable
\* while the other engine is available is replaced by the other engine.
SubstitutesUnavailable ==
  (/\ last.invoked
   /\ last.req.engine \in {"coqui", "pyttsx3"}
   /\ ~Available(last.req.engine)
   /\ Available(OtherEngine(last.req.engine)))
  => /\ last.calls # <<>>
     /\ last.calls[1].engine = OtherEngine(last.req.engine)

\* C4: synthesize returns true exactly when one of the engines it invoked returned
\* true, and it invokes no engine after a success.
ResultIsOr ==
  last.invoked =>
    /\ last.ret <=> (\E i \in 1..Len(last.calls) : last.calls[i].ret)
    /\ \A i \in 1..Len(last.calls) : last.calls[i].ret => i = Len(last.calls)

ResultIsOrWitness ==
  /\ last.invoked
  /\ Len(last.calls) = 2
  /\ Failed(last.calls[1])
  /\ last.calls[2].ret
  /\ last.ret

AutoSucceeded ==
  /\ last.invoked
  /\ last.req.engine = "auto"
  /\ last.calls # <<>>
  /\ last.calls[1].ret
  /\ Exists(files[last.path])

\* C5: an auto request goes first to the first available engine in the order coqui,
\* pyttsx3; with only pyttsx3 available it goes to pyttsx3, and when that synthesis
\* produces its artifact the request reports success with a reference to it.
AutoUsesPrimary ==
  /\ (last.invoked /\ last.req.engine = "auto") =>
       /\ last.calls # <<>>
       /\ last.calls[1].engine = FirstAvailable
  /\ (AutoSucceeded /\ ~coqui_available /\ pyttsx_available) =>
       /\ last.calls[1].engine = "pyttsx3"
       /\ last.op = "sync" => (last.code = 200 /\ last.audio = last.path)
       /\ last.op = "worker" =>
            /\ task_storage[last.task].status = "completed"
            /\ task_storage[last.task].result = last.path
       /\ last.op = "cli" => last.code = 0

AutoUsesPrimaryWitness ==
  /\ AutoSucceeded
  /\ ~coqui_available /\ pyttsx_available
  /\ last.op = "sync"
  /\ last.code = 200

IsPrefix(a, b) == Len(a) <= Len(b) /\ \A i \in 1..Len(a) : a[i] = b[i]

Lifecycles == {<<"pending", "processing", "completed">>, <<"pending", "processing", "failed">>}

Rank(status) ==
  IF status = "pending" THEN 1 ELSE IF status = "processing" THEN 2 ELSE 3

\* C6 as stated: the distinct statuses returned by successive polls of a task form
\* a prefix of (pending, processing, completed) or (pending, processing, failed).
PolledIsPrefix ==
  \A id \in TaskIds : \E cycle \in Lifecycles : IsPrefix(polled[id], cycle)

\* C6 as amended: the statuses written to a task record form a prefix of one of the
\* two lifecycles, the record holds the last one written, and the distinct statuses
\* returned by polls are taken from that sequence in order: never backward, never
\* away from completed or failed, though a poll may miss a stage.
StatusMonotone ==
  \A id \in TaskIds :
    /\ \E cycle \in Lifecycles : IsPrefix(status_log[id], cycle)
    /\ Present(id) => task_storage[id].status = status_log[id][Len(status_log[id])]
    /\ \A i \in 1..Len(polled[id]) :
         /\ \E k \in 1..Len(status_log[id]) : status_log[id][k] = polled[id][i]
         /\ i > 1 => Rank(polled[id][i - 1]) < Rank(polled[id][i])

StatusMonotoneWitness ==
  \E id \in TaskIds :
    /\ Len(polled[id]) = 2
    /\ polled[id][1] = "pending"
    /\ polled[id][2] \in {"completed", "failed"}

Cutoff == now - RetentionHours

\* C7: a file or task record disappears only if its timestamp is strictly older
\* than one hour before the cleanup, and a cleanup leaves every file and record at
\* or newer than that cutoff present and unmodified.
CleanupOnlyOld ==
  [][/\ \A p \in Paths :
          (Exists(files[p]) /\ ~Exists(files'[p])) => files[p].mtime < Cutoff
     /\ \A id \in TaskIds :
          (Present(id) /\ task_storage'[id].status = "none") =>
             task_storage[id].created_at < Cutoff
     /\ CleanupOldFiles =>
          /\ \A p \in Paths :
               (Exists(files[p]) /\ files[p].mtime >= Cutoff) => files'[p] = files[p]
          /\ \A id \in TaskIds :
               (Present(id) /\ task_storage[id].created_at >= Cutoff) =>
                  task_storage'[id] = task_storage[id]]_vars

CleanupOnlyOldWitness ==
  /\ \E id \in TaskIds : status_log[id] # <<>> /\ ~Present(id)
  /\ \E p \in AudioPaths : Exists(files[p]) /\ files[p].mtime = Cutoff

BlankText(text) == text[2] = 0

\* C8: a request whose text is empty or only whitespace causes no engine call at
\* POST /api/synthesize, POST /api/synthesize-async and the command line, and the
\* asynchronous endpoint creates no task record for it.
BlankNeverSynthesized ==
  /\ [](/\ (last.op # "none" /\ BlankText(last.req.text)) =>
             (~last.invoked /\ last.calls = <<>> /\ last.task = -1)
        /\ \A job \in background : ~BlankText(job.req.text))
  /\ [][(last' # last /\ last'.op = "async" /\ BlankText(last'.req.text)) =>
          (task_storage' = task_storage /\ background' = background)]_vars

BlankNeverSynthesizedWitness ==
  /\ last.op = "async"
  /\ last.req.text = <<1, 0>>
  /\ last.code = 500

\* C9: oversized text (more than 1000 characters) or an intensity outside 0..100
\* is rejected before any engine call at every request boundary.
InvalidNeverSynthesized ==
  (/\ last.op # "none"
   /\ \/ TextLen(last.req.text) > 1000
      \/ last.req.intensity < 0
      \/ last.req.intensity > 100)
  => last.calls = <<>>

\* C10: after a request that ends in overall failure no file exists at its
\* destination path unless one existed before the request.
NoArtifactOnFailure ==
  (last.invoked /\ ~last.ret) => (Exists(files[last.path]) => last.existed)

\* C11: the command line exits with code 0 exactly when the requested synthesis
\* succeeded and with code 1 on every synthesis failure and every invalid input
\* (missing or empty text, intensity outside 0..100, unwritable output path).
CliExitZeroOrOne ==
  last.op = "cli" => last.code = (IF last.invoked /\ last.ret THEN 0 ELSE 1)

RejectedByValidation ==
  \/ last.op \in {"sync", "async"} /\ BlankText(last.req.text)
  \/ last.op = "sync" /\ TextLen(last.req.text) > 1000

\* C16: POST /api/synthesize and POST /api/synthesize-async answer a request
\* rejected by input validation with status 400, and answer with status 500 only
\* after a synthesis failure or an unexpected exception.
ValidationAnswers400 ==
  /\ RejectedByValidation => last.code = 400
  /\ (last.op \in {"sync", "async"} /\ last.code = 500) => ~RejectedByValidation

LastStatus(id) == status_log[id][Len(status_log[id])]

Queued(id) == \E job \in background : job.id = id

\* C17: cleanup never removes the record of a task that is still pending or
\* processing, so the background worker always finds its record and never faults.
WorkerFindsRecord ==
  /\ \A id \in TaskIds :
       (status_log[id] # <<>> /\ LastStatus(id) \in {"pending", "processing"}) => Present(id)
  /\ faulted = {}

\* C18: every accepted task reaches completed or failed with progress 100 once its
\* background worker has run; none stays pending or disappears before that.
WorkerEndsTerminal ==
  \A id \in TaskIds :
    (status_log[id] # <<>> /\ ~Queued(id)) =>
      /\ LastStatus(id) \in {"completed", "failed"}
      /\ Present(id) => task_storage[id].progress = 100

NothingServed ==
  /\ last = NoLast
  /\ nsync = 0
  /\ background = {}
  /\ \A id \in TaskIds : status_log[id] = <<>> /\ polled[id] = <<>>

\* C12: with neither engine available the construction of DualTTSSystem ends the
\* process with exit status 1 and no request, status query or voice listing is
\* served; whenever a request has been processed, the primary is an available engine.
StartupFatal ==
  /\ (~coqui_available /\ ~pyttsx_available) =>
       (proc = "exited" /\ exit_status = 1 /\ NothingServed)
  /\ last.op # "none" =>
       /\ proc = "running"
       /\ primary \in {"coqui", "pyttsx3"}
       /\ IF primary = "coqui" THEN coqui_available ELSE pyttsx_available

StartupFatalWitness ==
  /\ ~coqui_available /\ ~pyttsx_available
  /\ proc = "exited"
  /\ exit_status = 1

\* ------------------------------------------------- properties of the adapters
PyttsxRan == applied.adapter = "pyttsx3" /\ applied.ran

CoquiRan == applied.adapter = "coqui" /\ applied.ran

\* C13: a style that is not a key of an adapter's style table gets exactly the
\* parameters the neutral style gets, in the Coqui adapter and in the pyttsx3 adapter.
UnknownStyleIsNeutral ==
  /\ (CoquiRan /\ applied.style \notin StyleKeys) =>
       /\ applied.params = CoquiGetStyleParams("neutral", applied.intensity)
       /\ applied.params.keys = {}
  /\ (PyttsxRan /\ applied.style \notin StyleKeys) =>
       pyttsx_engine = PyttsxApplyStyle(PyttsxSelectVoice(applied.base, applied.voice),
                                        "neutral", applied.intensity)

UnknownStyleIsNeutralWitness ==
  /\ PyttsxRan /\ applied.ret
  /\ applied.style = "happy" /\ applied.intensity = 100
  /\ pyttsx_engine.rate # applied.base.rate

BaseSpeedTenths(style) ==
  IF style = "enthusiastic" THEN 11
  ELSE IF style = "somber" THEN 8
  ELSE IF style = "authoritative" THEN 9
  ELSE 10

SpeedIsBaseTimesScale ==
  applied.params.speed[1] * 1000 =
    applied.params.speed[2] * BaseSpeedTenths(applied.style) * (50 + applied.intensity)

SpeedIsBaseOverScale ==
  applied.params.speed[1] * 10 * (50 + applied.intensity) =
    applied.params.speed[2] * BaseSpeedTenths(applied.style) * 100

RateAndVolumeScaled ==
  LET config == PyttsxStyleConfig(applied.style)
      uncapped == Fraction(applied.base.volume[1] * config.volume_mult
                             * (50 + applied.intensity),
                           applied.base.volume[2] * 1000)
  IN /\ pyttsx_engine.rate =
          (applied.base.rate * config.rate_mult * (50 + applied.intensity)) \div 1000
     /\ IF uncapped[1] > uncapped[2]
        THEN pyttsx_engine.volume = <<1, 1>>
        ELSE pyttsx_engine.volume = uncapped

LowerIntensities == {j \in AdapterIntensities : j <= applied.intensity}

SpeedNotBelowLower ==
  \A j \in LowerIntensities :
    FractionLeq(CoquiGetStyleParams(applied.style, j).speed, applied.params.speed)

SpeedNotAboveLower ==
  \A j \in LowerIntensities :
    FractionLeq(applied.params.speed, CoquiGetStyleParams(applied.style, j).speed)

RateAndVolumeNotBelowLower ==
  \A j \in LowerIntensities :
    LET lower == PyttsxApplyStyle(PyttsxSelectVoice(applied.base, applied.voice),
                                  applied.style, j)
    IN lower.rate <= pyttsx_engine.rate /\ FractionLeq(lower.volume, pyttsx_engine.volume)

\* C14 as written: for every style of an adapter's table and every intensity in 0..100,
\* the parameter an adapter produces (the Coqui speed; the pyttsx3 rate, cut to an
\* integer, and volume before the cap at 1) is the style's base multiplier times
\* m = 0.5 + intensity/100, hence never smaller than at a lower intensity.
ParameterIsBaseTimesScale ==
  /\ (CoquiRan /\ applied.style \in StyleKeys /\ applied.params.keys # {}) =>
       SpeedIsBaseTimesScale /\ SpeedNotBelowLower
  /\ (PyttsxRan /\ applied.style \in StyleKeys) =>
       RateAndVolumeScaled /\ RateAndVolumeNotBelowLower

FullIntensities == MinIntensity .. (MaxIntensity - 1)

CoquiSpeedMonotone ==
  \A style \in StyleKeys \ {"neutral"}, i \in FullIntensities :
    LET lo == CoquiGetStyleParams(style, i).speed
        hi == CoquiGetStyleParams(style, i + 1).speed
    IN IF style = "somber" THEN FractionLeq(hi, lo) ELSE FractionLeq(lo, hi)

PyttsxMonotone ==
  \A style \in StyleKeys, i \in FullIntensities, r \in DefaultRates, v \in DefaultVolumes :
    LET lo == PyttsxApplyStyle(EngineProperties(r, v, 0), style, i)
        hi == PyttsxApplyStyle(EngineProperties(r, v, 0), style, i + 1)
    IN lo.rate <= hi.rate /\ FractionLeq(lo.volume, hi.volume)

\* C14 amended: with m = 0.5 + intensity/100 (1/2 at intensity 0, 3/2 at 100), the Coqui
\* adapter passes no speed for neutral, speed = base * m for enthusiastic, confident and
\* authoritative, and speed = 0.8 / m for somber, which falls as intensity rises; the
\* pyttsx3 adapter sets rate = the integer part of (current rate * rate multiplier * m)
\* and volume = min(1, current volume * volume multiplier * m), both non-decreasing in
\* intensity.
StyleScaling ==
  /\ IntensityScale(MinIntensity) = <<1, 2>> /\ IntensityScale(MaxIntensity) = <<3, 2>>
  /\ (CoquiRan /\ applied.style \in StyleKeys) =>
       IF applied.style = "neutral" THEN applied.params.keys = {}
       ELSE /\ applied.params.keys = {"speed"}
            /\ IF applied.style = "somber"
               THEN SpeedIsBaseOverScale /\ SpeedNotAboveLower
               ELSE SpeedIsBaseTimesScale /\ SpeedNotBelowLower
  /\ (PyttsxRan /\ applied.style \in StyleKeys) =>
       RateAndVolumeScaled /\ RateAndVolumeNotBelowLower
  /\ CoquiSpeedMonotone
  /\ PyttsxMonotone

StyleScalingWitness ==
  /\ CoquiRan /\ applied.ret
  /\ applied.style = "somber" /\ applied.intensity = 100
  /\ applied.params.speed = <<8, 15>>

\* C15: after a pyttsx3 synthesis the engine's rate, volume and voice are the ones the
\* request's style, intensity and voice give on the engine as it was initialised; nothing
\* is carried over from earlier requests.
EngineSetFromRequest ==
  PyttsxRan =>
    pyttsx_engine = PyttsxApplyStyle(PyttsxSelectVoice(pyttsx_default, applied.voice),
                                     applied.style, applied.intensity)

====
